---- MODULE Spec2Model ----
(***************************************************************************)
(* A model of haruhi, a fluent builder of HTTP requests: the Request       *)
(* builder (request.go), the response resolver and its terminal decoders   *)
(* (response.go) and the merge helpers (util).                             *)
(*                                                                         *)
(* The builder is the record r, one field per field of the Go struct.      *)
(* Pointers and optional values are sequences of length at most one        *)
(* (<<>> is Go's nil); errors are strings, "nil" being the nil error.      *)
(***************************************************************************)
EXTENDS Integers, Sequences, FiniteSets, TLC

VARIABLES r, shouldPanic, hist, last, given, mh

vars == <<r, shouldPanic, hist, last, given, mh>>

(***************************************************************************)
(* Bounds of the model.                                                    *)
(***************************************************************************)
\* Builder calls recorded in hist.
MaxOps == 4
\* Requests built on one builder (Request() and the terminal calls).
MaxCalls == 2
\* Largest duration and largest point in time.
MaxTime == 2
\* Values one key carries in a map given to Params, Headers or a merge.
MaxVals == 1
\* Values one key of the builder's params or headers accumulates.
MaxLen == 3
\* Length of a base URL and of a path, in characters.
MaxStr == 2
\* Calls of Headers on one builder.
MaxHeaderCalls == 2

(***************************************************************************)
(* Values.                                                                 *)
(***************************************************************************)
NoErr == "nil"

\* time.Duration is a signed integer: a negative timeout can be given.
Durations == {0 - 1} \cup (0 .. MaxTime)

\* *time.Time: nil, or a pointer to a point in time.
Deadlines == {<<>>} \cup {<<t>> : t \in 1 .. MaxTime}

Vals == {"1", "2"}

SeqsUpTo(S, n) == UNION {[1 .. k -> S] : k \in 0 .. n}

\* All maps from a subset of keys to sequences of at most n values.
MapsOver(keys, n) == UNION {[ks -> SeqsUpTo(Vals, n)] : ks \in SUBSET keys}

\* The orders in which Go may range over the keys of a map.
Orders(S) ==
  {o \in [1 .. Cardinality(S) -> S] :
     \A i, j \in 1 .. Cardinality(S) : i # j => o[i] # o[j]}

EmptyMap == [k \in {} |-> <<>>]

\* m[k] of a Go map of slices: the nil slice for a missing key.
At(m, k) == IF k \in DOMAIN m THEN m[k] ELSE <<>>

(***************************************************************************)
(* net/http's Header and net/url's Values (the maps the helpers merge).    *)
(***************************************************************************)
HeaderKeys == {"X-A", "x-a", "X-B"}

ParamKeys == {"a", "b"}

\* textproto.CanonicalMIMEHeaderKey, which Header.Add and Header.Del apply
\* to the key they are given: "x-a" and "X-A" name the same header.
Canon(k) == IF k = "x-a" THEN "X-A" ELSE k

CanonKeys == {Canon(k) : k \in HeaderKeys}

\* http.Header.Del(key)
HeaderDel(h, k) == [x \in DOMAIN h \ {Canon(k)} |-> h[x]]

\* http.Header.Add(key, value)
HeaderAdd(h, k, v) ==
  [x \in DOMAIN h \cup {Canon(k)} |-> IF x = Canon(k) THEN Append(At(h, x), v) ELSE h[x]]

\* http.Header.Set(key, value)
HeaderSet(h, k, v) ==
  [x \in DOMAIN h \cup {Canon(k)} |-> IF x = Canon(k) THEN <<v>> ELSE h[x]]

\* url.Values.Add(key, value): the key is taken as it is.
ValuesAdd(q, k, v) ==
  [x \in DOMAIN q \cup {k} |-> IF x = k THEN Append(At(q, x), v) ELSE q[x]]

\* The inner loop of both merges: for _, value := range values { dst.Add }
RECURSIVE AddEachHeader(_, _, _)
AddEachHeader(dst, k, values) ==
  IF values = <<>> THEN dst
  ELSE AddEachHeader(HeaderAdd(dst, k, Head(values)), k, Tail(values))

RECURSIVE AddEachParam(_, _, _)
AddEachParam(dst, k, values) ==
  IF values = <<>> THEN dst
  ELSE AddEachParam(ValuesAdd(dst, k, Head(values)), k, Tail(values))

\* mergeParams(dst, src), ranging over src's keys in the given order.
RECURSIVE mergeParams(_, _, _)
mergeParams(dst, src, order) ==
  IF order = <<>> THEN dst
  ELSE mergeParams(AddEachParam(dst, Head(order), src[Head(order)]), src, Tail(order))

\* mergeHeaders that never unsets: the values are added whatever the flag.
RECURSIVE mergeHeadersNeverUnset(_, _, _, _)
mergeHeadersNeverUnset(dst, src, unset, order) ==
  IF order = <<>> THEN dst
  ELSE mergeHeadersNeverUnset(AddEachHeader(dst, Head(order), src[Head(order)]),
                              src, unset, Tail(order))

\* mergeHeaders(dst, src, unset), ranging over src's keys in the given order.
RECURSIVE mergeHeaders(_, _, _, _)
mergeHeaders(dst, src, unset, order) ==
  IF order = <<>> THEN dst
  ELSE LET header == Head(order)
           cleared == IF unset THEN HeaderDel(dst, header) ELSE dst
       IN mergeHeaders(AddEachHeader(cleared, header, src[header]), src, unset, Tail(order))

(***************************************************************************)
(* The builder.                                                            *)
(***************************************************************************)
Methods == {"GET", "POST", "B D"}

\* http.NewRequestWithContext refuses a method that is no token.
ValidMethod(m) == m # "B D"

Codes == {200, 404}

\* A context: where it starts and the layers derived on top, oldest first.
TODOCtx == [base |-> "TODO", layers |-> <<>>]

\* URL(what): the builder after construction.
URL(what, query) ==
  [url |-> what, urlq |-> query, method |-> "GET", path |-> <<>>,
   params |-> EmptyMap, body |-> <<>>, headers |-> EmptyMap,
   ctx |-> TODOCtx, timeout |-> 0, deadline |-> <<>>,
   username |-> "", password |-> "",
   errorHandler |-> "nil",
   statusCodeHandlers |-> [c \in {} |-> "nil"],
   statusExpectation |-> 0, ifNotStatusCodeHandler |-> "nil"]

\* last holds what the call just made returned; a call of a setter clears it.
NoCall == [op |-> "none"]

\* What a call leaves in hist: the call and the two timing fields after it.
Entry(op, arg, rr) == [op |-> op, arg |-> arg, to |-> rr.timeout, dl |-> rr.deadline]

InitWith(what, query) ==
  /\ r = URL(what, query)
  /\ shouldPanic = FALSE
  /\ hist = <<>>
  /\ last = NoCall
  /\ given = EmptyMap
  /\ mh = [done |-> FALSE]

Init == InitWith(<<"h">>, <<>>)

\* Timeout without its guard: the timeout is stored whatever the deadline.
TimeoutFieldUnguarded(rr, timeout) == [rr EXCEPT !.timeout = timeout]

\* Timeout(0) taken as "no timing at all": it also clears the deadline.
TimeoutFieldZeroClears(rr, timeout) ==
  IF timeout = 0 THEN [rr EXCEPT !.timeout = 0, !.deadline = <<>>]
  ELSE IF rr.deadline = <<>> THEN [rr EXCEPT !.timeout = timeout] ELSE rr

\* Deadline without its guard: the deadline is stored whatever the timeout.
DeadlineFieldUnguarded(rr, deadline) == [rr EXCEPT !.deadline = deadline]

\* Request.Timeout
TimeoutField(rr, timeout) ==
  IF rr.deadline = <<>> THEN [rr EXCEPT !.timeout = timeout] ELSE rr

\* Request.Deadline
DeadlineField(rr, deadline) ==
  IF rr.timeout = 0 THEN [rr EXCEPT !.deadline = deadline] ELSE rr

Timeout(timeout) ==
  /\ Len(hist) < MaxOps
  /\ r' = TimeoutField(r, timeout)
  /\ hist' = Append(hist, Entry("Timeout", timeout, r'))
  /\ last' = NoCall
  /\ UNCHANGED <<shouldPanic, given, mh>>

Deadline(deadline) ==
  /\ Len(hist) < MaxOps
  /\ r' = DeadlineField(r, deadline)
  /\ hist' = Append(hist, Entry("Deadline", deadline, r'))
  /\ last' = NoCall
  /\ UNCHANGED <<shouldPanic, given, mh>>

\* Request.Path
PathField(rr, path) == [rr EXCEPT !.path = path]

\* Params that replaces what the builder holds by the map it is given.
ParamsFieldReplacing(rr, params, order) == [rr EXCEPT !.params = params]

\* Request.Params
ParamsField(rr, params, order) ==
  [rr EXCEPT !.params = mergeParams(rr.params, params, order)]

\* Request.Headers
HeadersField(rr, headers, order) ==
  [rr EXCEPT !.headers = mergeHeaders(rr.headers, headers, FALSE, order)]

\* Request.BasicAuth
BasicAuthField(rr, username, password) ==
  [rr EXCEPT !.username = username, !.password = password]

\* Request.Method
MethodField(rr, method) == [rr EXCEPT !.method = method]

\* Request.ErrorHandler
ErrorHandlerField(rr, errorHandler) == [rr EXCEPT !.errorHandler = errorHandler]

\* The calls of Headers among the recorded calls.
HeaderCalls(h) == SelectSeq(h, LAMBDA e : e.op = "Headers")

Path(path) ==
  /\ r' = PathField(r, path)
  /\ last' = NoCall
  /\ UNCHANGED <<shouldPanic, hist, given, mh>>

Params(params) ==
  \E order \in Orders(DOMAIN params) :
    /\ r' = ParamsField(r, params, order)
    /\ \A k \in DOMAIN params : Len(At(given, k)) + Len(params[k]) <= MaxLen
    /\ given' = [k \in DOMAIN given \cup DOMAIN params |->
                   At(given, k) \o At(params, k)]
    /\ last' = NoCall
    /\ UNCHANGED <<shouldPanic, hist, mh>>

Headers(headers) ==
  \E order \in Orders(DOMAIN headers) :
    /\ Len(hist) < MaxOps
    /\ Len(HeaderCalls(hist)) < MaxHeaderCalls
    /\ r' = HeadersField(r, headers, order)
    /\ hist' = Append(hist, Entry("Headers", headers, r'))
    /\ last' = NoCall
  /\ UNCHANGED <<shouldPanic, given, mh>>

BasicAuth(username, password) ==
  /\ r' = BasicAuthField(r, username, password)
  /\ last' = NoCall
  /\ UNCHANGED <<shouldPanic, hist, given, mh>>

Method(method) ==
  /\ r' = MethodField(r, method)
  /\ last' = NoCall
  /\ UNCHANGED <<shouldPanic, hist, given, mh>>

ErrorHandler(errorHandler) ==
  /\ r' = ErrorHandlerField(r, errorHandler)
  /\ last' = NoCall
  /\ UNCHANGED <<shouldPanic, hist, given, mh>>

(***************************************************************************)
(* Request(): the executable request built from the configuration.         *)
(***************************************************************************)
CancelLayer == [kind |-> "cancel", val |-> 0, cancelled |-> FALSE]

\* The context Request() leaves in r.ctx; the cancel function it returns is
\* the one of the last layer.
DeriveCtx(rr) ==
  LET c == [rr.ctx EXCEPT !.layers = Append(@, CancelLayer)]
  IN IF rr.timeout > 0
       THEN [c EXCEPT !.layers =
               Append(@, [kind |-> "timeout", val |-> rr.timeout, cancelled |-> FALSE])]
     ELSE IF rr.deadline # <<>>
       THEN [c EXCEPT !.layers =
               Append(@, [kind |-> "deadline", val |-> rr.deadline[1], cancelled |-> FALSE])]
     ELSE c

\* The layer a derived context ends with, as <<kind, val>>.
Top(ctx) == <<ctx.layers[Len(ctx.layers)].kind, ctx.layers[Len(ctx.layers)].val>>

\* A context is done once the cancel function of one of its layers was called.
Cancelled(ctx) == \E i \in 1 .. Len(ctx.layers) : ctx.layers[i].cancelled

\* Requests built so far on the builder's context.
CallsMade(rr) == Len(SelectSeq(rr.ctx.layers, LAMBDA l : l.kind = "cancel"))

\* req.URL.Query(): the pairs of the raw query, as a map of values.
RECURSIVE ParseQuery(_)
ParseQuery(pairs) ==
  IF pairs = <<>> THEN EmptyMap
  ELSE ValuesAdd(ParseQuery(SubSeq(pairs, 1, Len(pairs) - 1)),
                 pairs[Len(pairs)][1], pairs[Len(pairs)][2])

\* The keys of ParamKeys as sort.Strings orders them.
SortedKeys == <<"a", "b">>

\* url.Values.Encode(): the pairs, sorted by key.
RECURSIVE EncodeKeys(_, _)
EncodeKeys(q, keys) ==
  IF keys = <<>> THEN <<>>
  ELSE [i \in 1 .. Len(At(q, Head(keys))) |-> <<Head(keys), q[Head(keys)][i]>>]
         \o EncodeKeys(q, Tail(keys))

Encode(q) == EncodeKeys(q, SortedKeys)

\* req.SetBasicAuth(username, password)
SetBasicAuth(header, username, password) ==
  HeaderSet(header, "Authorization", "Basic " \o username \o ":" \o password)

\* Request.Request: <<>> for a nil *http.Request. horder and porder are the
\* orders in which the two merges range over r.headers and r.params.
Request(rr, horder, porder) ==
  LET ctx == DeriveCtx(rr)
      merged == mergeHeaders(EmptyMap, rr.headers, TRUE, horder)
      header == IF Len(rr.username) > 0 \/ Len(rr.password) > 0
                  THEN SetBasicAuth(merged, rr.username, rr.password)
                  ELSE merged
      q == mergeParams(ParseQuery(rr.urlq), rr.params, porder)
  IN IF ~ValidMethod(rr.method)
       THEN [req |-> <<>>, err |-> "haruhi failed to create request", ctx |-> ctx]
       ELSE [req |-> <<[ctx |-> ctx, method |-> rr.method, url |-> rr.url \o rr.path,
                        header |-> header, query |-> Encode(q), body |-> rr.body]>>,
             err |-> NoErr, ctx |-> ctx]

\* What the context of a built request was derived from, as <<kind, val>>.
Derived(req) == IF req = <<>> THEN <<"none", 0>> ELSE Top(req[1].ctx)

\* A call of Request() by the user, who is handed the request and the cancel.
RequestCall ==
  \E horder \in Orders(DOMAIN r.headers), porder \in Orders(DOMAIN r.params) :
    /\ CallsMade(r) < MaxCalls
    /\ Len(hist) < MaxOps
    /\ LET res == Request(r, horder, porder)
       IN /\ r' = [r EXCEPT !.ctx = res.ctx]
          /\ last' = [op |-> "Request", req |-> res.req, err |-> res.err]
    /\ hist' = Append(hist, Entry("Request", Derived(last'.req), r'))
    /\ UNCHANGED <<shouldPanic, given, mh>>

(***************************************************************************)
(* The response resolver: Response(), ResponseBody() and the terminal      *)
(* decoders.                                                               *)
(***************************************************************************)
\* The handlers a user can register, named by what they return.
\*   errorHandler:            "suppress" returns nil, "keep" returns the error
\*                            it was given, "replace" returns an error of its own
\*   statusCodeHandlers:      "accept" returns nil, "reject" returns an error
\*   ifNotStatusCodeHandler:  "tolerate" returns nil, "refuse" returns an error
\* None of them closes the body of the response it is given.
ErrorHandlers == {"suppress", "keep", "replace"}

CodeHandlers == {"accept", "reject"}

MismatchHandlers == {"tolerate", "refuse"}

\* r.errorHandler(resp, err)
CallErrorHandler(h, resp, err) ==
  CASE h = "suppress" -> NoErr
    [] h = "keep" -> err
    [] OTHER -> "error of the error handler"

\* codeHandler(resp) and r.ifNotStatusCodeHandler(resp)
CallStatusHandler(h, resp) ==
  CASE h \in {"accept", "tolerate"} -> NoErr
    [] h = "reject" -> "error of the status handler"
    [] OTHER -> "error of the mismatch handler"

\* Registration of a per-status handler and of the expected status code with
\* its mismatch handler.
StatusCodeHandlerField(rr, code, handler) ==
  [rr EXCEPT !.statusCodeHandlers =
     [c \in DOMAIN @ \cup {code} |-> IF c = code THEN handler ELSE @[c]]]

IfNotStatusCodeField(rr, code, handler) ==
  [rr EXCEPT !.statusExpectation = code, !.ifNotStatusCodeHandler = handler]

StatusCodeHandler(code, handler) ==
  /\ r' = StatusCodeHandlerField(r, code, handler)
  /\ last' = NoCall
  /\ UNCHANGED <<shouldPanic, hist, given, mh>>

IfNotStatusCode(code, handler) ==
  /\ r' = IfNotStatusCodeField(r, code, handler)
  /\ last' = NoCall
  /\ UNCHANGED <<shouldPanic, hist, given, mh>>

\* What r.client.Do can answer on a live context: a transport error (with no
\* response, or with one whose body the client has closed already), no
\* response and no error, or a response with an open body that may fail to
\* be read or to decode.
Answer(err, resp) == [err |-> err, resp |-> resp]

Received(status, closed, readable, wellFormed) ==
  <<[status |-> status, closed |-> closed, readable |-> readable,
     wellFormed |-> wellFormed]>>

Worlds ==
  {Answer("transport error", <<>>), Answer("transport error", Received(404, TRUE, FALSE, FALSE))}
    \cup {Answer(NoErr, <<>>)}
    \cup {Answer(NoErr, Received(c, FALSE, FALSE, FALSE)) : c \in Codes}
    \cup {Answer(NoErr, Received(c, FALSE, TRUE, wf)) : c \in Codes, wf \in BOOLEAN}

\* r.client.Do(req): a request whose context is done fails with its error.
Do(req, w) ==
  IF Cancelled(req.ctx) THEN Answer("context canceled", <<>>) ELSE w

\* A handler invocation, with the arguments it was given.
Invocation(which, resp, err) == [which |-> which, resp |-> resp, err |-> err]

\* What Response() hands back: resp, err, the context left in r.ctx (whose
\* last layer's cancel function is the one returned), the answer of Do
\* (<<>> when the request was not dispatched) and the handlers invoked.
Resolved(resp, err, ctx, did, invoked) ==
  [resp |-> resp, err |-> err, ctx |-> ctx, did |-> did, invoked |-> invoked]

\* Response() without the look-up of a per-status handler.
HandleWithoutStatusHandlers(rr, ctx, d) ==
  IF d.err # NoErr
    THEN IF rr.errorHandler # "nil"
           THEN Resolved(d.resp, CallErrorHandler(rr.errorHandler, d.resp, d.err),
                         ctx, <<d>>, <<Invocation("error", d.resp, d.err)>>)
           ELSE Resolved(d.resp, d.err, ctx, <<d>>, <<>>)
  ELSE IF d.resp = <<>>
    THEN Resolved(d.resp, "nil response from http client", ctx, <<d>>, <<>>)
  ELSE IF rr.statusExpectation > 0 /\ d.resp[1].status # rr.statusExpectation
    THEN Resolved(d.resp, CallStatusHandler(rr.ifNotStatusCodeHandler, d.resp),
                  ctx, <<d>>, <<Invocation("mismatch", d.resp, NoErr)>>)
  ELSE Resolved(d.resp, NoErr, ctx, <<d>>, <<>>)

\* Response() with the status expectation checked before the per-status
\* handlers.
HandleMismatchFirst(rr, ctx, d) ==
  IF d.err = NoErr /\ d.resp # <<>>
       /\ rr.statusExpectation > 0 /\ d.resp[1].status # rr.statusExpectation
    THEN Resolved(d.resp, CallStatusHandler(rr.ifNotStatusCodeHandler, d.resp),
                  ctx, <<d>>, <<Invocation("mismatch", d.resp, NoErr)>>)
  ELSE IF d.err = NoErr /\ d.resp # <<>> /\ d.resp[1].status \in DOMAIN rr.statusCodeHandlers
    THEN Resolved(d.resp, CallStatusHandler(rr.statusCodeHandlers[d.resp[1].status], d.resp),
                  ctx, <<d>>, <<Invocation("status", d.resp, NoErr)>>)
  ELSE HandleWithoutStatusHandlers(rr, ctx, d)

\* Request.Response, from the answer of r.client.Do on: the error handler,
\* the nil response, the per-status handler, the status expectation.
Handle(rr, ctx, d) ==
  LET code == d.resp[1].status
  IN IF d.err # NoErr
       THEN IF rr.errorHandler # "nil"
              THEN Resolved(d.resp, CallErrorHandler(rr.errorHandler, d.resp, d.err),
                            ctx, <<d>>, <<Invocation("error", d.resp, d.err)>>)
              ELSE Resolved(d.resp, d.err, ctx, <<d>>, <<>>)
     ELSE IF d.resp = <<>>
       THEN Resolved(d.resp, "nil response from http client", ctx, <<d>>, <<>>)
     ELSE IF code \in DOMAIN rr.statusCodeHandlers
       THEN Resolved(d.resp, CallStatusHandler(rr.statusCodeHandlers[code], d.resp),
                     ctx, <<d>>, <<Invocation("status", d.resp, NoErr)>>)
     ELSE IF rr.statusExpectation > 0 /\ code # rr.statusExpectation
       THEN Resolved(d.resp, CallStatusHandler(rr.ifNotStatusCodeHandler, d.resp),
                     ctx, <<d>>, <<Invocation("mismatch", d.resp, NoErr)>>)
     ELSE Resolved(d.resp, NoErr, ctx, <<d>>, <<>>)

\* Request.Response, from the request built on: a request that could not be
\* built is not dispatched.
Dispatch(rr, built, w) ==
  IF built.err # NoErr THEN Resolved(<<>>, built.err, built.ctx, <<>>, <<>>)
  ELSE Handle(rr, built.ctx, Do(built.req[1], w))

\* Request.Response
Response(rr, w, horder, porder) == Dispatch(rr, Request(rr, horder, porder), w)

\* Request.ResponseBody, from what Response() returned on: body is the
\* response whose Body is handed on (<<>> for none); panic is the nil
\* dereference of resp.Body.
BodyOf(x) ==
  IF x.err # NoErr THEN [body |-> <<>>, err |-> x.err, panic |-> FALSE, x |-> x]
  ELSE IF x.resp = <<>> THEN [body |-> <<>>, err |-> NoErr, panic |-> TRUE, x |-> x]
  ELSE [body |-> x.resp, err |-> NoErr, panic |-> FALSE, x |-> x]

\* Request.ResponseBody
ResponseBody(rr, w, horder, porder) == BodyOf(Response(rr, w, horder, porder))

\* r.ctx once the returned cancel function has been called.
CancelTop(ctx) == [ctx EXCEPT !.layers[Len(ctx.layers)].cancelled = TRUE]

\* What a terminal call leaves behind: how it ended ("return" or "panic"),
\* the value (<<>> for none) and error it returned, the Response() it rests
\* on, whether the received body is closed and the cancel function has been
\* called when it ends, and whether the generic decode path ran.
Ended(how, value, err, b, closed, cancelCalled, decoded) ==
  [how |-> how, value |-> value, err |-> err, x |-> b.x,
   closed |-> closed, cancelCalled |-> cancelCalled, decoded |-> decoded,
   ctx |-> IF cancelCalled THEN CancelTop(b.x.ctx) ELSE b.x.ctx]

\* Whether the stream of a received response is closed, Close() not called.
LeftClosed(resp) == resp # <<>> /\ resp[1].closed

\* Request.ResponseBuffer, from what ResponseBody() returned on. A panic in
\* ResponseBody() comes before the deferred cancel is registered.
BufferOf(b) ==
  IF b.panic THEN Ended("panic", <<>>, NoErr, b, LeftClosed(b.x.resp), FALSE, FALSE)
  ELSE IF b.err # NoErr
    THEN Ended("return", <<>>, b.err, b, LeftClosed(b.x.resp), TRUE, FALSE)
  ELSE IF ~b.body[1].readable
    THEN Ended("return", <<>>, "read error", b, TRUE, TRUE, TRUE)
  ELSE Ended("return", <<"buffer">>, NoErr, b, TRUE, TRUE, TRUE)

\* Request.ResponseBuffer
ResponseBuffer(rr, w, horder, porder) == BufferOf(ResponseBody(rr, w, horder, porder))

\* Request.ResponseBytes and Request.ResponseString, from the buffer on.
Converted(e, value) ==
  IF e.how = "return" /\ e.err = NoErr THEN [e EXCEPT !.value = <<value>>] ELSE e

ResponseBytes(rr, w, horder, porder) ==
  Converted(ResponseBuffer(rr, w, horder, porder), "bytes")

ResponseString(rr, w, horder, porder) ==
  Converted(ResponseBuffer(rr, w, horder, porder), "string")

\* Request.ResponseJson and Request.ResponseXML, from what ResponseBody()
\* returned on: Decode(v) reads the body and fills the caller's target.
DecodeOf(b) ==
  IF b.panic THEN Ended("panic", <<>>, NoErr, b, LeftClosed(b.x.resp), FALSE, FALSE)
  ELSE IF b.err # NoErr
    THEN Ended("return", <<>>, b.err, b, LeftClosed(b.x.resp), TRUE, FALSE)
  ELSE IF ~b.body[1].readable
    THEN Ended("return", <<>>, "read error", b, TRUE, TRUE, TRUE)
  ELSE IF ~b.body[1].wellFormed
    THEN Ended("return", <<>>, "decode error", b, TRUE, TRUE, TRUE)
  ELSE Ended("return", <<"decoded">>, NoErr, b, TRUE, TRUE, TRUE)

ResponseJson(rr, w, horder, porder) == DecodeOf(ResponseBody(rr, w, horder, porder))

ResponseXML(rr, w, horder, porder) == DecodeOf(ResponseBody(rr, w, horder, porder))

\* A call that builds and dispatches a request: what it leaves in the
\* builder (the context derived for it) and in last.
Terminal(op, rr, e) ==
  /\ CallsMade(r) < MaxCalls
  /\ r' = [rr EXCEPT !.ctx = e.ctx]
  /\ last' = [op |-> op] @@ e
  /\ UNCHANGED <<shouldPanic, hist, given, mh>>

\* The method a shortcut sets before it calls ResponseString.
WithMethod(method) == [r EXCEPT !.method = method]

\* Response() and ResponseBody() called by the user, who is handed the
\* response (or its body) and the cancel function and releases them.
Handed(x) ==
  Ended("return", x.resp, x.err, [x |-> x], LeftClosed(x.resp), FALSE, FALSE)

HandedBody(b) ==
  Ended(IF b.panic THEN "panic" ELSE "return", b.body, b.err, b,
        LeftClosed(b.x.resp), FALSE, FALSE)

ResponseCall ==
  \E w \in Worlds, horder \in Orders(DOMAIN r.headers), porder \in Orders(DOMAIN r.params) :
    Terminal("Response", r, Handed(Response(r, w, horder, porder)))

ResponseBodyCall ==
  \E w \in Worlds, horder \in Orders(DOMAIN r.headers), porder \in Orders(DOMAIN r.params) :
    Terminal("ResponseBody", r, HandedBody(ResponseBody(r, w, horder, porder)))

ResponseBufferCall ==
  \E w \in Worlds, horder \in Orders(DOMAIN r.headers), porder \in Orders(DOMAIN r.params) :
    Terminal("ResponseBuffer", r, ResponseBuffer(r, w, horder, porder))

ResponseBytesCall ==
  \E w \in Worlds, horder \in Orders(DOMAIN r.headers), porder \in Orders(DOMAIN r.params) :
    Terminal("ResponseBytes", r, ResponseBytes(r, w, horder, porder))

ResponseStringCall ==
  \E w \in Worlds, horder \in Orders(DOMAIN r.headers), porder \in Orders(DOMAIN r.params) :
    Terminal("ResponseString", r, ResponseString(r, w, horder, porder))

ResponseJsonCall ==
  \E w \in Worlds, horder \in Orders(DOMAIN r.headers), porder \in Orders(DOMAIN r.params) :
    Terminal("ResponseJson", r, ResponseJson(r, w, horder, porder))

ResponseXMLCall ==
  \E w \in Worlds, horder \in Orders(DOMAIN r.headers), porder \in Orders(DOMAIN r.params) :
    Terminal("ResponseXML", r, ResponseXML(r, w, horder, porder))

\* Request.Get, Post, Put and Delete
Get ==
  \E w \in Worlds, horder \in Orders(DOMAIN r.headers), porder \in Orders(DOMAIN r.params) :
    Terminal("Get", WithMethod("GET"), ResponseString(WithMethod("GET"), w, horder, porder))

Post ==
  \E w \in Worlds, horder \in Orders(DOMAIN r.headers), porder \in Orders(DOMAIN r.params) :
    Terminal("Post", WithMethod("POST"), ResponseString(WithMethod("POST"), w, horder, porder))

Put ==
  \E w \in Worlds, horder \in Orders(DOMAIN r.headers), porder \in Orders(DOMAIN r.params) :
    Terminal("Put", WithMethod("PUT"), ResponseString(WithMethod("PUT"), w, horder, porder))

Delete ==
  \E w \in Worlds, horder \in Orders(DOMAIN r.headers), porder \in Orders(DOMAIN r.params) :
    Terminal("Delete", WithMethod("DELETE"), ResponseString(WithMethod("DELETE"), w, horder, porder))

\* The calls that end in one of the five terminal decoders.
Decoders ==
  {"ResponseBuffer", "ResponseBytes", "ResponseString", "ResponseJson", "ResponseXML",
   "Get", "Post", "Put", "Delete"}

Next ==
  \/ \E m \in Methods : Method(m)
  \/ \E h \in ErrorHandlers \cup {"nil"} : ErrorHandler(h)
  \/ \E c \in Codes, h \in CodeHandlers : StatusCodeHandler(c, h)
  \/ \E c \in Codes, h \in MismatchHandlers : IfNotStatusCode(c, h)
  \/ ResponseCall
  \/ ResponseBodyCall
  \/ ResponseBufferCall
  \/ ResponseBytesCall
  \/ ResponseStringCall
  \/ ResponseJsonCall
  \/ ResponseXMLCall

Spec == Init /\ [][Next]_vars

\* The answer r.client.Do gave to the call just made.
Did == last.x.did[1]

\* The call just made ended in a terminal decoder, which returned.
DecoderReturned == last.op \in Decoders /\ last.how = "return"

\* C1: on every exit path of a terminal decoder the body of the response,
\* when one was received, has been closed and the cancel function returned by
\* Request() has been called before the terminal returns.
C1_ReleasedOnEveryExit ==
  DecoderReturned =>
    /\ last.cancelCalled
    /\ last.x.resp # <<>> => last.closed

\* The call just made received a response whose status code has a handler.
StatusHandlerRegistered ==
  /\ last.op \in Decoders
  /\ last.x.did # <<>> /\ Did.err = NoErr /\ Did.resp # <<>>
  /\ Did.resp[1].status \in DOMAIN r.statusCodeHandlers

\* What the handler registered for the received status code returns.
StatusHandlerReturn == CallStatusHandler(r.statusCodeHandlers[Did.resp[1].status], Did.resp)

\* Response() invoked the handler of the received status code, and no other.
StatusHandlerInvoked ==
  /\ last.x.invoked = <<Invocation("status", Did.resp, NoErr)>>
  /\ last.x.err = StatusHandlerReturn

TransportFailed ==
  /\ last.op \in Decoders \cup {"Response", "ResponseBody"}
  /\ last.x.did # <<>> /\ Did.err # NoErr

\* C6: on a transport error, with no error handler Response() and every
\* terminal decoder return that error unchanged; with an error handler, the
\* handler is invoked exactly once with the response and the error, and the
\* caller receives what the handler returns in place of the error.
C6_TransportErrorToCaller ==
  TransportFailed =>
    /\ r.errorHandler = "nil" =>
         /\ last.x.invoked = <<>>
         /\ last.x.err = Did.err
         /\ last.how = "return" /\ last.err = Did.err
    /\ r.errorHandler # "nil" =>
         /\ last.x.invoked = <<Invocation("error", Did.resp, Did.err)>>
         /\ last.x.err = CallErrorHandler(r.errorHandler, Did.resp, Did.err)
         /\ last.how = "return"
         /\ last.err = CallErrorHandler(r.errorHandler, Did.resp, Did.err)

\* The four shortcuts, each on a builder with or without an error handler.
NextShortcuts ==
  \/ \E m \in Methods : Method(m)
  \/ \E h \in ErrorHandlers \cup {"nil"} : ErrorHandler(h)
  \/ Get
  \/ Post
  \/ Put
  \/ Delete

SpecShortcuts == Init /\ [][NextShortcuts]_vars

(***************************************************************************)
(* Timeout and deadline.                                                   *)
(***************************************************************************)
NextTime ==
  \/ \E t \in Durations : Timeout(t)
  \/ \E d \in Deadlines : Deadline(d)
  \/ RequestCall

SpecTime == Init /\ [][NextTime]_vars

\* The timing fields before the i-th recorded call.
Before(i) == IF i = 1 THEN [to |-> 0, dl |-> <<>>] ELSE [to |-> hist[i - 1].to, dl |-> hist[i - 1].dl]

\* The i-th recorded call left the timing fields as they were.
Ignored(i) == hist[i].to = Before(i).to /\ hist[i].dl = Before(i).dl

\* C3 as stated: after any sequence of Timeout and Deadline calls the builder
\* never holds both a non-zero timeout and a non-nil deadline, and once a call
\* has set one of the two (timeout non-zero, deadline non-nil) every later
\* call to the other setter leaves both fields unchanged.
C3_OnceSetOtherIgnored ==
  /\ ~(r.timeout # 0 /\ r.deadline # <<>>)
  /\ \A i \in 1 .. Len(hist) : \A j \in (i + 1) .. Len(hist) :
       /\ (hist[i].op = "Timeout" /\ hist[i].to # 0 /\ hist[j].op = "Deadline")
            => Ignored(j)
       /\ (hist[i].op = "Deadline" /\ hist[i].dl # <<>> /\ hist[j].op = "Timeout")
            => Ignored(j)

\* C3 amended: the builder never holds both a non-zero timeout and a non-nil
\* deadline, and a call to one setter made while the other field is still set
\* (not cleared since by Timeout(0) or Deadline(nil)) leaves both fields
\* unchanged.
C3_FirstSetWins ==
  /\ ~(r.timeout # 0 /\ r.deadline # <<>>)
  /\ \A i \in 1 .. Len(hist) :
       /\ ~(hist[i].to # 0 /\ hist[i].dl # <<>>)
       /\ (hist[i].op = "Deadline" /\ Before(i).to # 0) => Ignored(i)
       /\ (hist[i].op = "Timeout" /\ Before(i).dl # <<>>) => Ignored(i)

\* C3's case: a deadline given while a timeout is set.
C3_Witness ==
  \E i \in 1 .. Len(hist) :
    hist[i].op = "Deadline" /\ hist[i].arg # <<>> /\ Before(i).to # 0

\* Calls i, i+1, i+2 are a setter that took effect, the other setter, Request().
DeadlineThenTimeout(i) ==
  /\ hist[i].op = "Deadline" /\ hist[i].arg # <<>> /\ hist[i].dl = hist[i].arg
  /\ hist[i + 1].op = "Timeout" /\ hist[i + 1].arg > 0
  /\ hist[i + 2].op = "Request"

TimeoutThenDeadline(i) ==
  /\ hist[i].op = "Timeout" /\ hist[i].arg > 0 /\ hist[i].to = hist[i].arg
  /\ hist[i + 1].op = "Deadline" /\ hist[i + 1].arg # <<>>
  /\ hist[i + 2].op = "Request"

\* C4 as stated: the most recently set of the two is the active one. After
\* Deadline(d) then Timeout(t), t > 0, Request() derives its context from the
\* timeout t; after Timeout(t), t > 0, then Deadline(d), from the deadline d.
C4_LastSetWins ==
  \A i \in 1 .. Len(hist) - 2 :
    /\ DeadlineThenTimeout(i) => hist[i + 2].arg = <<"timeout", hist[i + 1].arg>>
    /\ TimeoutThenDeadline(i) => hist[i + 2].arg = <<"deadline", hist[i + 1].arg[1]>>

\* C4 amended: the first set of the two stays the active one. After
\* Deadline(d) has set the deadline, Timeout(t) is ignored and Request() derives
\* its context from the deadline d; after Timeout(t), t > 0, has set the
\* timeout, Deadline(d) is ignored and Request() derives it from the timeout t.
C4_FirstSetStaysActive ==
  \A i \in 1 .. Len(hist) - 2 :
    /\ DeadlineThenTimeout(i) => hist[i + 2].arg = <<"deadline", hist[i].arg[1]>>
    /\ TimeoutThenDeadline(i) => hist[i + 2].arg = <<"timeout", hist[i].arg>>

\* C4's case: a deadline set, then a timeout given, then Request().
C4_Witness ==
  /\ \E i \in 1 .. Len(hist) - 2 : DeadlineThenTimeout(i)
  /\ last.op = "Request" /\ last.req # <<>>

\* Call i is Timeout(0) on a builder whose deadline is set.
TimeoutZeroOnDeadline(i) ==
  hist[i].op = "Timeout" /\ hist[i].arg = 0 /\ Before(i).dl # <<>>

\* C5: Timeout(0) on a builder whose deadline is set leaves the deadline as it
\* was, and the request built next derives its context from that deadline.
C5_TimeoutZeroKeepsDeadline ==
  \A i \in 1 .. Len(hist) :
    TimeoutZeroOnDeadline(i) =>
      /\ hist[i].dl = Before(i).dl
      /\ (i < Len(hist) /\ hist[i + 1].op = "Request") =>
           hist[i + 1].arg = <<"deadline", Before(i).dl[1]>>

\* C5's case: Timeout(0) on a set deadline, then Request().
C5_Witness ==
  \E i \in 1 .. Len(hist) - 1 :
    /\ TimeoutZeroOnDeadline(i)
    /\ hist[i + 1].op = "Request"
    /\ last.op = "Request" /\ last.req # <<>>

(***************************************************************************)
(* mergeHeaders on its own: a destination as the program holds it (built   *)
(* by Header.Add, so under canonical keys), any source map, either flag.   *)
(***************************************************************************)
InitMerge ==
  /\ r = URL(<<"h">>, <<>>)
  /\ shouldPanic = FALSE
  /\ hist = <<>>
  /\ last = NoCall
  /\ given = EmptyMap
  /\ \E dst \in MapsOver(CanonKeys, MaxVals), src \in MapsOver(HeaderKeys, MaxVals),
        unset \in BOOLEAN :
       mh = [done |-> FALSE, dst |-> dst, src |-> src, unset |-> unset, out |-> dst]

MergeHeadersStep ==
  \E order \in Orders(DOMAIN mh.src) :
    /\ ~mh.done
    /\ mh' = [mh EXCEPT !.done = TRUE,
                        !.out = mergeHeaders(mh.dst, mh.src, mh.unset, order)]
    /\ UNCHANGED <<r, shouldPanic, hist, last, given>>

NextMerge == MergeHeadersStep

SpecMerge == InitMerge /\ [][NextMerge]_vars

\* http.Header.Values(key): the values under the canonical form of the key.
Values(h, k) == At(h, Canon(k))

\* What the merge is to leave under the keys of src and under the other keys
\* of dst, header names compared in canonical form.
MergedAsClaimed ==
  /\ \A k \in DOMAIN mh.src :
       Values(mh.out, k) =
         IF mh.unset THEN mh.src[k] ELSE Values(mh.dst, k) \o mh.src[k]
  /\ \A k \in DOMAIN mh.dst :
       (\A j \in DOMAIN mh.src : Canon(j) # k) =>
         (k \in DOMAIN mh.out /\ mh.out[k] = mh.dst[k])

\* No two keys of the map name the same header.
NoCollision(m) == \A j, k \in DOMAIN m : Canon(j) = Canon(k) => j = k

\* C7 as stated: for every dst and src, mergeHeaders(dst, src, true) leaves
\* under each key k of src exactly src[k], mergeHeaders(dst, src, false) the
\* prior values of k followed by src[k]; the keys of dst not in src are
\* unchanged.
C7_MergeHeaders == mh.done => MergedAsClaimed

\* C7 amended: the same, for every dst and every src no two of whose keys
\* name the same header (have the same canonical form), the values of a key
\* being those held under its canonical form.
C7_MergeHeadersDistinctNames == (mh.done /\ NoCollision(mh.src)) => MergedAsClaimed

\* C7's case: an overwriting merge onto prior values, given under a key that
\* is not canonical, beside a key of dst that src does not name.
C7_Witness ==
  /\ mh.done /\ mh.unset /\ NoCollision(mh.src)
  /\ "x-a" \in DOMAIN mh.src /\ mh.src["x-a"] # <<>>
  /\ At(mh.dst, "X-A") # <<>> /\ At(mh.dst, "X-A") # mh.src["x-a"]
  /\ At(mh.dst, "X-B") # <<>> /\ "X-B" \notin DOMAIN mh.src

(***************************************************************************)
(* Headers of the builder and of the request built.                        *)
(***************************************************************************)
Usernames == {"", "u"}

Passwords == {"", "p"}

NextHeaders ==
  \/ \E h \in MapsOver(HeaderKeys, MaxVals) : Headers(h)
  \/ \E u \in Usernames, p \in Passwords : BasicAuth(u, p)
  \/ RequestCall

SpecHeaders == Init /\ [][NextHeaders]_vars

\* Calls i and j are two calls of Headers, one after the other.
HeadersTwice(i, j) ==
  /\ i < j /\ hist[i].op = "Headers" /\ hist[j].op = "Headers"
  /\ \A m \in (i + 1) .. (j - 1) : hist[m].op # "Headers"

URLQueries == SeqsUpTo(ParamKeys \X Vals, MaxVals)

InitParams == \E q \in URLQueries : InitWith(<<"h">>, q)

NextParams ==
  \/ \E p \in MapsOver(ParamKeys, MaxVals) : Params(p)
  \/ RequestCall

SpecParams == InitParams /\ [][NextParams]_vars

\* The values a raw query holds for a key, in order.
RECURSIVE QueryValues(_, _)
QueryValues(pairs, k) ==
  IF pairs = <<>> THEN <<>>
  ELSE (IF Head(pairs)[1] = k THEN <<Head(pairs)[2]>> ELSE <<>>)
         \o QueryValues(Tail(pairs), k)

\* C9: after any sequence of Params calls the builder holds, for each key,
\* the values given for it in call order (given), and the query of the
\* request built holds the values of the URL's own query followed by them.
C9_ParamsAccumulate ==
  /\ \A k \in ParamKeys : At(r.params, k) = At(given, k)
  /\ (last.op = "Request" /\ last.req # <<>>) =>
       \A k \in ParamKeys :
         QueryValues(last.req[1].query, k) = QueryValues(r.urlq, k) \o At(given, k)

\* C9's case: a key given in two calls, also present in the URL's query, and
\* the request built.
C9_Witness ==
  /\ last.op = "Request" /\ last.req # <<>>
  /\ QueryValues(r.urlq, "a") # <<>>
  /\ Len(At(given, "a")) >= 2 /\ given["a"][1] # given["a"][2]
  /\ At(given, "b") # <<>>

(***************************************************************************)
(* Base URL and path.                                                      *)
(***************************************************************************)
BaseURLs == {u \in SeqsUpTo({"h", "/"}, MaxStr) : u # <<>>}

Paths == SeqsUpTo({"p", "/"}, MaxStr)

InitPath == \E u \in BaseURLs : InitWith(u, <<>>)

NextPath ==
  \/ \E p \in Paths : Path(p)
  \/ RequestCall

SpecPath == InitPath /\ [][NextPath]_vars

\* The base URL without the separator it may end with.
Trimmed(u) == IF u[Len(u)] = "/" THEN SubSeq(u, 1, Len(u) - 1) ELSE u

\* C10: for every base URL and every non-empty path that does not begin with
\* "/", the URL of the request built has exactly one "/" between the base
\* URL and the path, whether or not the base URL ends with "/".
C10_OneSeparator ==
  (last.op = "Request" /\ last.req # <<>> /\ r.path # <<>> /\ r.path[1] # "/") =>
    last.req[1].url = Trimmed(r.url) \o <<"/">> \o r.path

(***************************************************************************)
(* The body of the request: Body, BodyBytes, BodyString, BodyJson, BodyXML *)
(* and the process-wide strict mode.                                       *)
(***************************************************************************)
\* The values given to BodyJson and BodyXML: nil, a value that encodes and
\* one that does not (a channel, say).
Anys == {"nil", "value", "chan"}

Encodes(body) == body # "chan"

\* The readers given to Body: nil or a reader of some content.
Readers == {<<>>, <<"reader">>}

\* r.body = body
BodyField(rr, body) == [rr EXCEPT !.body = body]

\* What BodyJson and BodyXML leave in the builder and how they end: the
\* call returns r or panics in logger.Panicln; logged is the line written by
\* logger.Println.
Encoded(rr, body, encoding, strict) ==
  IF body = "nil" THEN [r |-> rr, how |-> "return", logged |-> FALSE]
  ELSE IF ~Encodes(body)
    THEN IF strict THEN [r |-> rr, how |-> "panic", logged |-> FALSE]
         ELSE [r |-> rr, how |-> "return", logged |-> TRUE]
  ELSE [r |-> BodyField(rr, <<encoding \o " of " \o body>>), how |-> "return",
        logged |-> FALSE]

\* Request.BodyJson and Request.BodyXML
BodyJsonField(rr, body, strict) == Encoded(rr, body, "json", strict)

BodyXMLField(rr, body, strict) == Encoded(rr, body, "xml", strict)

\* PanicOnErrors()
PanicOnErrors ==
  /\ ~shouldPanic
  /\ shouldPanic' = TRUE
  /\ UNCHANGED <<r, hist, last, given, mh>>

\* A call of one of the body setters, recorded in hist.
BodySetter(op, arg, rr) ==
  /\ Len(hist) < MaxOps
  /\ r' = rr
  /\ hist' = Append(hist, Entry(op, arg, rr))
  /\ last' = NoCall
  /\ UNCHANGED <<shouldPanic, given, mh>>

Body(body) == BodySetter("Body", body, BodyField(r, body))

BodyBytes(body) == BodySetter("BodyBytes", body, BodyField(r, <<body>>))

BodyString(body) == BodySetter("BodyString", body, BodyField(r, <<body>>))

\* A call of BodyJson or BodyXML: last holds how it ended.
BodyEncoder(op, body, e) ==
  /\ Len(hist) < MaxOps
  /\ r' = e.r
  /\ hist' = Append(hist, Entry(op, body, e.r))
  /\ last' = [op |-> op, arg |-> body, how |-> e.how, logged |-> e.logged]
  /\ UNCHANGED <<shouldPanic, given, mh>>

BodyJson(body) == BodyEncoder("BodyJson", body, BodyJsonField(r, body, shouldPanic))

BodyXML(body) == BodyEncoder("BodyXML", body, BodyXMLField(r, body, shouldPanic))

NextBody ==
  \/ \E b \in Readers : Body(b)
  \/ BodyBytes("bytes")
  \/ BodyString("string")
  \/ \E v \in Anys : BodyJson(v)
  \/ \E v \in Anys : BodyXML(v)
  \/ PanicOnErrors
  \/ RequestCall

SpecBody == Init /\ [][NextBody]_vars

\* The call just made is BodyJson or BodyXML with a value that does not encode.
EncodeFailed == last.op \in {"BodyJson", "BodyXML"} /\ ~Encodes(last.arg)

\* The request just built follows such a call, made with strict mode off.
BuiltAfterEncodeFailure ==
  /\ last.op = "Request" /\ last.req # <<>>
  /\ ~shouldPanic
  /\ Len(hist) >= 2
  /\ hist[Len(hist) - 1].op \in {"BodyJson", "BodyXML"}
  /\ ~Encodes(hist[Len(hist) - 1].arg)

\* C11: when BodyJson or BodyXML is given a value that fails to encode, with
\* strict mode on the call panics; with strict mode off the failure is logged,
\* the call returns and the builder goes on with no body, so that the request
\* built afterwards has a nil body, also when a body had been set before.
C11_EncodeFailureLeavesNoBody ==
  /\ EncodeFailed =>
       IF shouldPanic THEN last.how = "panic"
       ELSE last.how = "return" /\ last.logged /\ r.body = <<>>
  /\ BuiltAfterEncodeFailure => last.req[1].body = <<>>

(***************************************************************************)
(* The order in which Response() consults the handlers.                    *)
(***************************************************************************)
\* The call just made was answered by a response and no transport error.
ResponseReceived ==
  /\ last.op \in Decoders \cup {"Response", "ResponseBody"}
  /\ last.x.did # <<>> /\ Did.err = NoErr /\ Did.resp # <<>>

\* The received status code differs from the expected one that is configured.
Mismatch == r.statusExpectation > 0 /\ Did.resp[1].status # r.statusExpectation

\* C12: for a response received without transport error, Response() does
\* exactly one of three things, in this order: if the received status code
\* has a handler, only that handler is invoked; otherwise, if an expected
\* status code is configured and the received one differs, only the mismatch
\* handler is invoked; otherwise no handler is invoked and the response is
\* returned as received with a nil error.
C12_HandlerPriority ==
  ResponseReceived =>
    /\ last.x.resp = Did.resp
    /\ IF Did.resp[1].status \in DOMAIN r.statusCodeHandlers
         THEN /\ last.x.invoked = <<Invocation("status", Did.resp, NoErr)>>
              /\ last.x.err = StatusHandlerReturn
       ELSE IF Mismatch
         THEN /\ last.x.invoked = <<Invocation("mismatch", Did.resp, NoErr)>>
              /\ last.x.err = CallStatusHandler(r.ifNotStatusCodeHandler, Did.resp)
       ELSE last.x.invoked = <<>> /\ last.x.err = NoErr

\* C12's case: Response() on a response whose status code has a handler and
\* differs from the expected one.
C12_Witness ==
  /\ ResponseReceived /\ last.op = "Response"
  /\ Did.resp[1].status \in DOMAIN r.statusCodeHandlers
  /\ Mismatch
  /\ r.ifNotStatusCodeHandler = "refuse"
  /\ r.statusCodeHandlers[Did.resp[1].status] = "accept"

(***************************************************************************)
(* A nil error from Response() and the response that comes with it.        *)
(***************************************************************************)
\* The call just made went through Response().
ThroughResponse == last.op \in Decoders \cup {"Response", "ResponseBody"}

\* C13: whenever Response() returns a nil error the response it returns is
\* non-nil, and no call of ResponseBody or of a terminal decoder ends in the
\* nil dereference of resp.Body; for every error handler, one that returns
\* nil for a transport error included, and for a nil response with no error.
C13_NilErrorHasResponse ==
  ThroughResponse =>
    /\ last.x.err = NoErr => last.x.resp # <<>>
    /\ last.how # "panic"

(***************************************************************************)
(* Terminal calls made one after the other on one builder.                 *)
(***************************************************************************)
NextRepeat ==
  \/ \E t \in Durations : Timeout(t)
  \/ \E d \in Deadlines : Deadline(d)
  \/ ResponseStringCall
  \/ ResponseJsonCall

SpecRepeat == Init /\ [][NextRepeat]_vars

\* The context a request is to carry when it is built fresh from the
\* configuration: derived from the context the builder was given (the
\* default one of URL(), no call of Context being made).
FreshCtx == DeriveCtx([r EXCEPT !.ctx = TODOCtx])

\* C14: each terminal call builds its request fresh from the configuration:
\* the context of the request, of a second terminal call too, is derived
\* from the builder's caller-supplied or default context and not from the
\* context derived for an earlier call, and it is not already cancelled by
\* the cancel function an earlier call released.
C14_BuiltFresh ==
  ThroughResponse =>
    /\ last.x.ctx = FreshCtx
    /\ ~Cancelled(last.x.ctx)
    /\ last.x.did # <<>> => Did.err # "context canceled"

====
